---- MODULE Spec2Model ----
(***************************************************************************)
(* Bellman-Ford shortest path lengths and negative cycle detection of      *)
(* graphblas_algorithms/algorithms/shortest_paths/weighted.py.             *)
(*                                                                         *)
(* A sparse Vector is a function whose DOMAIN is the set of stored         *)
(* indices; a sparse Matrix is a function whose DOMAIN is the set of       *)
(* stored <<row, col>> pairs.  An index outside the DOMAIN is "no entry".  *)
(* Node keys are taken to be the node ids 0 .. N-1 (G._key_to_id is the    *)
(* graph handle's bijection).                                              *)
(***************************************************************************)
EXTENDS Integers, Sequences, FiniteSets, TLC

\* ------------------------------------------------------------- bounds
\* largest number of stored edges (an undirected edge counts once)
MaxEdges == 3
\* largest number of stored edges of the graphs given to the multi-source form
MaxEdgesMulti == 2
\* largest cutoff explored (the smallest is -1)
MaxCutoff == 2

\* node ids of the graphs explored
Nodes == {0, 1, 2}
\* n = A.nrows
N == Cardinality(Nodes)
\* edge weights explored
Weights == {-2, 0, 1}
\* further weights of the graphs whose edges all carry one weight
IsoWeights == {2}
Cutoffs == (-1) .. MaxCutoff

VARIABLES
    G,       \* the graph handle: [A, directed, iso]
    call,    \* the invocation: [op, source, cutoff, nodes, expand]
    pc,      \* position in the running function
    i,       \* completed iterations of `for _i in range(n - 1)`
    d,       \* d (single source, negative_edge_cycle) or D (multi source)
    cur,     \* cur / Cur, the frontier
    checked, \* number of relaxations done by the for-else cycle check
    res      \* outcome of the call: [kind, val]

vars == <<G, call, pc, i, d, cur, checked, res>>

\* ------------------------------------------------------ sparse algebra
Min(S) == CHOOSE x \in S : \A y \in S : x <= y

Empty == <<>>

\* Vector with the entries of v at the indices in S
Restrict(v, S) == [j \in S \cap DOMAIN v |-> v[j]]

\* row r of matrix / adjacency M as a Vector
Row(M, r) == [j \in {c \in Nodes : <<r, c>> \in DOMAIN M} |-> M[<<r, j>>]]

\* min_plus(cur @ A): out[j] = min over stored cur[k], A[k, j] of cur[k] + A[k, j]
MinPlus(v, A) ==
    LET Src(j) == {k \in DOMAIN v : <<k, j>> \in DOMAIN A}
    IN  [j \in {c \in Nodes : Src(c) # {}} |->
            Min({v[k] + A[<<k, j>>] : k \in Src(j)})]

\* select.valuele(cur, cutoff)
ValueLE(v, c) == Restrict(v, {j \in DOMAIN v : v[j] <= c})

\* select.valuelt(diag, 0)
ValueLT(v, c) == Restrict(v, {j \in DOMAIN v : v[j] < c})

\* faulty variant: only new entries count as improved
ImprovedMask_NewOnly(c, dd) == [j \in DOMAIN c |-> j \notin DOMAIN dd]

\* mask << one(cur); mask(binary.second) << binary.lt(cur & d)
ImprovedMask(c, dd) ==
    [j \in DOMAIN c |-> IF j \in DOMAIN dd THEN c[j] < dd[j] ELSE TRUE]

\* cur(mask.V, replace) << cur
MaskV(c, mask) == Restrict(c, {j \in DOMAIN mask : mask[j]})

\* faulty variant: entries already in d are not overwritten
AssignS_KeepOld(dd, c) ==
    [j \in DOMAIN dd \cup DOMAIN c |-> IF j \in DOMAIN dd THEN dd[j] ELSE c[j]]

\* d(cur.S) << cur
AssignS(dd, c) ==
    [j \in DOMAIN dd \cup DOMAIN c |-> IF j \in DOMAIN c THEN c[j] ELSE dd[j]]

\* faulty variants: binary.le, binary.gt in place of binary.lt
StillImproves_LE(c, dd) == \E j \in DOMAIN c \cap DOMAIN dd : c[j] <= dd[j]
StillImproves_GT(c, dd) == \E j \in DOMAIN c \cap DOMAIN dd : c[j] > dd[j]

\* mask << binary.lt(cur & d); mask.reduce(monoid.lor)
StillImproves(c, dd) == \E j \in DOMAIN c \cap DOMAIN dd : c[j] < dd[j]

\* any_pair(d @ cur)
AnyPair(dd, c) == DOMAIN dd \cap DOMAIN c # {}

\* ------------------------------------------------- graph handle properties
IsDirected(g) == g.directed
\* "offdiag"
Offdiag(g) == [e \in {p \in DOMAIN g.A : p[1] # p[2]} |-> g.A[e]]
\* "diag"
Diag(g) == [j \in {c \in Nodes : <<c, c>> \in DOMAIN g.A} |-> g.A[<<j, j>>]]
\* "has_negative_diagonal"
HasNegativeDiagonal(g) == \E j \in DOMAIN Diag(g) : Diag(g)[j] < 0
\* "has_negative_edges+" (diagonal included)
HasNegativeEdgesPlus(g) == \E e \in DOMAIN g.A : g.A[e] < 0
\* "has_negative_edges-" (diagonal excluded)
HasNegativeEdgesMinus(g) == \E e \in DOMAIN Offdiag(g) : Offdiag(g)[e] < 0
\* "is_iso": the adjacency matrix is stored iso-valued
IsIso(g) == g.iso
\* "iso_value"
IsoValue(g) == g.A[CHOOSE e \in DOMAIN g.A : TRUE]
\* structure of "total_degrees-" (directed) / "degrees-" (undirected)
DegreesS(g) ==
    IF IsDirected(g)
    THEN {j \in Nodes : \E e \in DOMAIN Offdiag(g) : e[1] = j \/ e[2] = j}
    ELSE {j \in Nodes : \E e \in DOMAIN Offdiag(g) : e[1] = j}

\* ------------------------------------------------------------ inputs
Pairs == Nodes \X Nodes
UPairs == {p \in Pairs : p[1] <= p[2]}
SmallSubsets(S, maxE) == {E \in SUBSET S : Cardinality(E) <= maxE}

\* weight assignments to at most maxE of the positions S
Weighted(S, maxE) ==
    UNION {[E -> Weights] \cup {[e \in E |-> w] : w \in IsoWeights} :
              E \in SmallSubsets(S, maxE)}

\* adjacency matrices of directed graphs
DirectedAdj(maxE) == Weighted(Pairs, maxE)

\* symmetric adjacency matrix of the undirected graph with edge weights w
Sym(w) ==
    [e \in DOMAIN w \cup {<<p[2], p[1]>> : p \in DOMAIN w} |->
        IF e \in DOMAIN w THEN w[e] ELSE w[<<e[2], e[1]>>]]
UndirectedAdj(maxE) == {Sym(w) : w \in Weighted(UPairs, maxE)}

AllEqual(A) == \A e, f \in DOMAIN A : A[e] = A[f]
\* A.ss.is_iso is a storage property: only a matrix whose stored values are
\* all equal can be stored iso-valued, and such a matrix need not be.
IsoFlags(A) == IF DOMAIN A # {} /\ AllEqual(A) THEN {TRUE, FALSE} ELSE {FALSE}

GraphsOf(maxE) ==
    {[A |-> ab[1], directed |-> TRUE, iso |-> ab[2]] : ab \in
        {ab \in DirectedAdj(maxE) \X BOOLEAN : ab[2] \in IsoFlags(ab[1])}}
    \cup
    {[A |-> ab[1], directed |-> FALSE, iso |-> ab[2]] : ab \in
        {ab \in UndirectedAdj(maxE) \X BOOLEAN : ab[2] \in IsoFlags(ab[1])}}

NoCutoff == <<>>
\* what `cutoff // iso_value` does when iso_value is 0: raise, or give 0
ZeroDiv == {"raise", "zero"}

\* ------------------------------------------------------------ _bfs.py
\* _get_cutoff(n, cutoff)
GetCutoff(n, hop) == IF hop = NoCutoff \/ hop[1] >= n THEN n ELSE hop[1] + 1

RECURSIVE BfsLoop(_, _, _, _, _)
\* the loop `for i in range(1, cutoff)` of _bfs_level: v the levels so far,
\* q the frontier, lvl the value of i
BfsLoop(A, v, q, lvl, lim) ==
    IF lvl >= lim THEN v
    ELSE LET q2 == {j \in Nodes \ DOMAIN v : \E k \in q : <<k, j>> \in DOMAIN A}
         IN  IF q2 = {} THEN v
             ELSE BfsLoop(A, [j \in DOMAIN v \cup q2 |->
                                 IF j \in q2 THEN lvl ELSE v[j]], q2, lvl + 1, lim)

\* _bfs_level(G, source, cutoff)
BfsLevel(g, source, hop) ==
    BfsLoop(Offdiag(g), [j \in {source} |-> 0], {source}, 1, GetCutoff(N, hop))

\* d *= iso_value
Scale(v, k) == [j \in DOMAIN v |-> v[j] * k]

\* -------------------------------------------------------------- outcomes
NoRes == [kind |-> "none", val |-> Empty]
Return(v) == [kind |-> "return", val |-> v]
Unbounded == [kind |-> "Unbounded", val |-> Empty]
ZeroDivisionError == [kind |-> "ZeroDivisionError", val |-> Empty]

\* the locals of a running call
Locals == [pc |-> pc, i |-> i, d |-> d, cur |-> cur, checked |-> checked, res |-> res]
Fresh == [pc |-> "start", i |-> 0, d |-> Empty, cur |-> Empty, checked |-> 0,
          res |-> NoRes]
Done(L, r) == [L EXCEPT !.pc = "done", !.res = r]
Set(L) ==
    /\ pc' = L.pc
    /\ i' = L.i
    /\ d' = L.d
    /\ cur' = L.cur
    /\ checked' = L.checked
    /\ res' = L.res

\* ------------------------------ single_source_bellman_ford_path_length
\* cutoff = int(cutoff // iso_value)
HopCutoff(c, iso) == IF c = NoCutoff THEN NoCutoff ELSE <<c[1] \div iso>>

\* faulty variants: select.valuelt, select.valuege in place of select.valuele
ApplyCutoff_Strict(v, c) == IF c = NoCutoff THEN v ELSE ValueLT(v, c[1])
ApplyCutoff_GE(v, c) ==
    IF c = NoCutoff THEN v ELSE Restrict(v, {j \in DOMAIN v : v[j] >= c[1]})

\* if cutoff is not None: cur << select.valuele(cur, cutoff)
ApplyCutoff(v, c) == IF c = NoCutoff THEN v ELSE ValueLE(v, c[1])

\* lines 17-49: the iso-valued branches and the initialisation of d and cur
SSStart(g, c, L) ==
    LET index == c.source
        init == [j \in {index} |-> 0]
        general == [L EXCEPT !.pc = "loop", !.d = init, !.cur = init]
    IN  IF IsIso(g)
        THEN IF ~HasNegativeEdgesPlus(g)
             THEN IF c.cutoff # NoCutoff /\ IsoValue(g) = 0
                  THEN IF c.zdiv = "raise"
                       THEN Done(L, ZeroDivisionError)
                       ELSE Done(L, Return(Scale(BfsLevel(g, index, <<0>>), 0)))
                  ELSE LET lv == BfsLevel(g, index, HopCutoff(c.cutoff, IsoValue(g)))
                       IN  Done(L, Return(IF IsoValue(g) # 1
                                          THEN Scale(lv, IsoValue(g)) ELSE lv))
             ELSE IF <<index, index>> \in DOMAIN g.A
                  THEN Done(L, Unbounded)
                  ELSE IF ~IsDirected(g) /\ DOMAIN Row(g.A, index) # {}
                       THEN Done(L, Unbounded)
                       ELSE general
        ELSE general

\* lines 54-63: the relaxed, cut off and filtered frontier of one iteration
Frontier(g, c, L) ==
    LET relaxed == ApplyCutoff(MinPlus(L.cur, Offdiag(g)), c.cutoff)
    IN  MaskV(relaxed, ImprovedMask(relaxed, L.d))

\* lines 50-67: one iteration of `for _i in range(n - 1)`
SSRound(g, c, L) ==
    LET f == Frontier(g, c, L)
    IN  IF DOMAIN f = {}
        THEN [L EXCEPT !.pc = "diag", !.cur = f]
        ELSE [L EXCEPT !.i = L.i + 1, !.cur = f, !.d = AssignS(L.d, f)]

\* lines 68-75: the else clause of the for loop
SSCheck(g, c, L) ==
    LET relaxed == ApplyCutoff(MinPlus(L.cur, Offdiag(g)), c.cutoff)
    IN  IF StillImproves(relaxed, L.d)
        THEN Done([L EXCEPT !.cur = relaxed, !.checked = L.checked + 1], Unbounded)
        ELSE [L EXCEPT !.pc = "diag", !.cur = relaxed, !.checked = L.checked + 1]

\* lines 76-82: the negative self-loop check and the return
SSDiag(g, c, L) ==
    IF HasNegativeDiagonal(g)
    THEN LET neg == ValueLT(Diag(g), 0)
         IN  IF AnyPair(L.d, neg)
             THEN Done([L EXCEPT !.cur = neg], Unbounded)
             ELSE Done([L EXCEPT !.cur = neg], Return(L.d))
    ELSE Done(L, Return(L.d))

SS_Start ==
    /\ call.op = "ss" /\ pc = "start"
    /\ Set(SSStart(G, call, Locals))
    /\ UNCHANGED <<G, call>>

SS_Round ==
    /\ call.op = "ss" /\ pc = "loop" /\ i < N - 1
    /\ Set(SSRound(G, call, Locals))
    /\ UNCHANGED <<G, call>>

SS_Check ==
    /\ call.op = "ss" /\ pc = "loop" /\ i = N - 1
    /\ Set(SSCheck(G, call, Locals))
    /\ UNCHANGED <<G, call>>

SS_Diag ==
    /\ call.op = "ss" /\ pc = "diag"
    /\ Set(SSDiag(G, call, Locals))
    /\ UNCHANGED <<G, call>>

\* the function run to its end from the locals L
RECURSIVE SSRun(_, _, _)
SSRun(g, c, L) ==
    IF L.pc = "done" THEN L.res
    ELSE IF L.pc = "start" THEN SSRun(g, c, SSStart(g, c, L))
    ELSE IF L.pc = "diag" THEN SSRun(g, c, SSDiag(g, c, L))
    ELSE IF L.i < N - 1 THEN SSRun(g, c, SSRound(g, c, L))
    ELSE SSRun(g, c, SSCheck(g, c, L))

\* faulty variant: d seeded at node 0 only
NECStart_SeedFirst(g, L) ==
    IF HasNegativeDiagonal(g) THEN Done(L, Return(TRUE))
    ELSE IF ~HasNegativeEdgesMinus(g) THEN Done(L, Return(FALSE))
    ELSE LET init == [j \in {0} |-> 0]
         IN  [L EXCEPT !.pc = "loop", !.d = init, !.cur = init]

\* ------------------------------------------------- negative_edge_cycle
\* lines 169-191: the two short-circuit answers and the seeding of d
NECStart(g, L) ==
    IF HasNegativeDiagonal(g) THEN Done(L, Return(TRUE))
    ELSE IF ~HasNegativeEdgesMinus(g) THEN Done(L, Return(FALSE))
    ELSE LET init == [j \in DegreesS(g) |-> 0]
         IN  [L EXCEPT !.pc = "loop", !.d = init, !.cur = init]

\* lines 192-199: one iteration of `for _i in range(n - 1)`
NECRound(g, L) ==
    LET relaxed == MinPlus(L.cur, Offdiag(g))
        f == MaskV(relaxed, ImprovedMask(relaxed, L.d))
    IN  IF DOMAIN f = {}
        THEN Done([L EXCEPT !.cur = f], Return(FALSE))
        ELSE [L EXCEPT !.i = L.i + 1, !.cur = f, !.d = AssignS(L.d, f)]

\* lines 200-204: the relaxation after the loop
NECCheck(g, L) ==
    LET relaxed == MinPlus(L.cur, Offdiag(g))
    IN  Done([L EXCEPT !.cur = relaxed, !.checked = L.checked + 1],
             Return(StillImproves(relaxed, L.d)))

NEC_Start ==
    /\ call.op = "nec" /\ pc = "start"
    /\ Set(NECStart(G, Locals))
    /\ UNCHANGED <<G, call>>

NEC_Round ==
    /\ call.op = "nec" /\ pc = "loop" /\ i < N - 1
    /\ Set(NECRound(G, Locals))
    /\ UNCHANGED <<G, call>>

NEC_Check ==
    /\ call.op = "nec" /\ pc = "loop" /\ i = N - 1
    /\ Set(NECCheck(G, Locals))
    /\ UNCHANGED <<G, call>>

\* --------------------------------------------- bellman_ford_path_lengths
\* A Matrix with one row per source is a function from the row number to
\* the row as a Vector; its DOMAIN is 0 .. nrows-1.

\* ids = G.list_to_ids(nodes), or every node in id order when nodes is None
SourceIds(c) ==
    IF c.all THEN [r \in Nodes |-> r]
    ELSE [r \in 0 .. (Len(c.nodes) - 1) |-> c.nodes[r + 1]]

\* _bfs_levels(G, nodes)
BfsLevels(g, ids) == [r \in DOMAIN ids |-> BfsLevel(g, ids[r], NoCutoff)]

\* G._A[ids, :].nvals > 0 (G._A.nvals > 0 when nodes is None)
RowsHaveEdges(g, c) ==
    IF c.all THEN DOMAIN g.A # {}
    ELSE \E r \in DOMAIN SourceIds(c) : DOMAIN Row(g.A, SourceIds(c)[r]) # {}

\* nodes is not None and expand_output and D.ncols != D.nrows
MustExpand(c, D) == ~c.all /\ c.expand /\ N # Cardinality(DOMAIN D)

\* rv = Matrix(D.dtype, n, n); rv[ids, :] = D
Expand(ids, D) ==
    [row \in Nodes |->
        IF \E r \in DOMAIN ids : ids[r] = row
        THEN D[CHOOSE r \in DOMAIN ids : ids[r] = row]
        ELSE Empty]

Nvals(M) == Cardinality({rj \in (DOMAIN M) \X Nodes : rj[2] \in DOMAIN M[rj[1]]})

\* lines 96-141: the iso-valued branches and the initialisation of D and Cur
BFStart(g, c, L) ==
    LET ids == SourceIds(c)
        init == [r \in DOMAIN ids |-> [j \in {ids[r]} |-> 0]]
        general == [L EXCEPT !.pc = "loop", !.d = init, !.cur = init]
    IN  IF IsIso(g)
        THEN IF ~HasNegativeEdgesPlus(g)
             THEN LET lv == BfsLevels(g, ids)
                      D == IF IsoValue(g) # 1
                           THEN [r \in DOMAIN lv |-> Scale(lv[r], IsoValue(g))]
                           ELSE lv
                  IN  Done(L, Return(IF MustExpand(c, D) THEN Expand(ids, D) ELSE D))
             ELSE IF ~IsDirected(g) /\ RowsHaveEdges(g, c)
                  THEN Done(L, Unbounded)
                  ELSE general
        ELSE general

\* faulty variant: the loop is left as soon as one row's frontier is empty
BFRound_BreakAny(g, L) ==
    LET relaxed == [r \in DOMAIN L.cur |-> MinPlus(L.cur[r], Offdiag(g))]
        f == [r \in DOMAIN L.cur |->
                 MaskV(relaxed[r], ImprovedMask(relaxed[r], L.d[r]))]
    IN  IF \E r \in DOMAIN f : DOMAIN f[r] = {}
        THEN [L EXCEPT !.pc = "diag", !.cur = f]
        ELSE [L EXCEPT !.i = L.i + 1, !.cur = f,
                       !.d = [r \in DOMAIN L.d |-> AssignS(L.d[r], f[r])]]

\* faulty variant: the loop is not left when the frontier is empty
BFRound_NoBreak(g, L) ==
    LET relaxed == [r \in DOMAIN L.cur |-> MinPlus(L.cur[r], Offdiag(g))]
        f == [r \in DOMAIN L.cur |->
                 MaskV(relaxed[r], ImprovedMask(relaxed[r], L.d[r]))]
    IN  [L EXCEPT !.i = L.i + 1, !.cur = f,
                  !.d = [r \in DOMAIN L.d |-> AssignS(L.d[r], f[r])]]

\* lines 142-149: one iteration of `for _i in range(n - 1)`
BFRound(g, L) ==
    LET relaxed == [r \in DOMAIN L.cur |-> MinPlus(L.cur[r], Offdiag(g))]
        f == [r \in DOMAIN L.cur |->
                 MaskV(relaxed[r], ImprovedMask(relaxed[r], L.d[r]))]
    IN  IF Nvals(f) = 0
        THEN [L EXCEPT !.pc = "diag", !.cur = f]
        ELSE [L EXCEPT !.i = L.i + 1, !.cur = f,
                       !.d = [r \in DOMAIN L.d |-> AssignS(L.d[r], f[r])]]

\* lines 150-154: the else clause of the for loop
BFCheck(g, L) ==
    LET relaxed == [r \in DOMAIN L.cur |-> MinPlus(L.cur[r], Offdiag(g))]
        L2 == [L EXCEPT !.cur = relaxed, !.checked = L.checked + 1]
    IN  IF \E r \in DOMAIN relaxed : StillImproves(relaxed[r], L.d[r])
        THEN Done(L2, Unbounded)
        ELSE [L2 EXCEPT !.pc = "diag"]

\* lines 155-164: the negative self-loop check, the expansion and the return
BFDiag(g, c, L) ==
    IF HasNegativeDiagonal(g)
          /\ \E r \in DOMAIN L.d : AnyPair(L.d[r], ValueLT(Diag(g), 0))
    THEN Done(L, Unbounded)
    ELSE Done(L, Return(IF MustExpand(c, L.d)
                        THEN Expand(SourceIds(c), L.d) ELSE L.d))

BF_Start ==
    /\ call.op = "bf" /\ pc = "start"
    /\ Set(BFStart(G, call, Locals))
    /\ UNCHANGED <<G, call>>

BF_Round ==
    /\ call.op = "bf" /\ pc = "loop" /\ i < N - 1
    /\ Set(BFRound(G, Locals))
    /\ UNCHANGED <<G, call>>

BF_Check ==
    /\ call.op = "bf" /\ pc = "loop" /\ i = N - 1
    /\ Set(BFCheck(G, Locals))
    /\ UNCHANGED <<G, call>>

BF_Diag ==
    /\ call.op = "bf" /\ pc = "diag"
    /\ Set(BFDiag(G, call, Locals))
    /\ UNCHANGED <<G, call>>

\* ------------------------------------------------------- specifications
\* the calls single_source_bellman_ford_path_length(G, source, cutoff=c)
SSCall(s, c, z) ==
    [op |-> "ss", source |-> s, cutoff |-> c, zdiv |-> z,
     nodes |-> <<>>, all |-> FALSE, expand |-> FALSE]
SSCalls(cutoffs) == {SSCall(s, c, z) : s \in Nodes, c \in cutoffs, z \in ZeroDiv}

\* the call negative_edge_cycle(G)
NECCall ==
    [op |-> "nec", source |-> 0, cutoff |-> NoCutoff, zdiv |-> "raise",
     nodes |-> <<>>, all |-> FALSE, expand |-> FALSE]

\* non-empty lists of distinct nodes
NodeLists ==
    {q \in UNION {[1 .. k -> Nodes] : k \in 1 .. N} :
        \A a, b \in DOMAIN q : a # b => q[a] # q[b]}

\* the calls bellman_ford_path_lengths(G, nodes, expand_output=e)
BFCalls ==
    {[op |-> "bf", source |-> 0, cutoff |-> NoCutoff, zdiv |-> "raise",
      nodes |-> q, all |-> FALSE, expand |-> e] : q \in NodeLists, e \in BOOLEAN}
    \cup
    {[op |-> "bf", source |-> 0, cutoff |-> NoCutoff, zdiv |-> "raise",
      nodes |-> <<>>, all |-> TRUE, expand |-> e] : e \in BOOLEAN}

\* zdiv matters only where `cutoff // iso_value` divides by zero
Relevant(g, c) ==
    c.zdiv = "raise" \/
    (c.op = "ss" /\ c.cutoff # NoCutoff /\ IsIso(g) /\ IsoValue(g) = 0)

InitWith(graphs, calls) ==
    /\ G \in graphs
    /\ call \in calls
    /\ Relevant(G, call)
    /\ pc = "start" /\ i = 0 /\ d = Empty /\ cur = Empty /\ checked = 0
    /\ res = NoRes

SSNext == SS_Start \/ SS_Round \/ SS_Check \/ SS_Diag
NECNext == NEC_Start \/ NEC_Round \/ NEC_Check
BFNext == BF_Start \/ BF_Round \/ BF_Check \/ BF_Diag

\* single source without cutoff, and negative_edge_cycle
Init == InitWith(GraphsOf(MaxEdges), SSCalls({NoCutoff}) \cup {NECCall})
Next == SSNext \/ NECNext
Spec == Init /\ [][Next]_vars

\* single source with a cutoff
InitCut == InitWith(GraphsOf(MaxEdges), SSCalls({<<c>> : c \in Cutoffs}))
SpecCut == InitCut /\ [][SSNext]_vars

\* all three functions on smaller graphs
InitAll ==
    InitWith(GraphsOf(MaxEdgesMulti),
             SSCalls({NoCutoff} \cup {<<c>> : c \in Cutoffs})
                 \cup {NECCall} \cup BFCalls)
NextAll == SSNext \/ NECNext \/ BFNext
SpecAll == InitAll /\ [][NextAll]_vars

\* ------------------------------------------------- reference definitions
\* sequences of distinct nodes
SimpleSeqs ==
    {q \in UNION {[1 .. k -> Nodes] : k \in 1 .. N} :
        \A a, b \in DOMAIN q : a # b => q[a] # q[b]}

\* q is a path of the graph with adjacency A
IsPath(A, q) == \A a \in 1 .. (Len(q) - 1) : <<q[a], q[a + 1]>> \in DOMAIN A

RECURSIVE PathWeight(_, _)
PathWeight(A, q) ==
    IF Len(q) <= 1 THEN 0
    ELSE A[<<q[1], q[2]>>] + PathWeight(A, Tail(q))

PathsFromTo(A, s, v) ==
    {q \in SimpleSeqs : q[1] = s /\ q[Len(q)] = v /\ IsPath(A, q)}

\* nodes reachable from s
Reach(g, s) == {v \in Nodes : PathsFromTo(g.A, s, v) # {}}

\* minimum total weight of a path from s to v
ShortestPath(g, s, v) == Min({PathWeight(g.A, q) : q \in PathsFromTo(g.A, s, v)})

\* a cycle (a self-loop, or a closed path through two or more nodes; an
\* undirected edge walked there and back is one) of negative total weight
\* through a node reachable from s
NegCycles(g) ==
    {q \in SimpleSeqs :
        /\ IsPath(g.A, q)
        /\ <<q[Len(q)], q[1]>> \in DOMAIN g.A
        /\ PathWeight(g.A, q) + g.A[<<q[Len(q)], q[1]>>] < 0}
NegCycleReachable(g, s) == \E q \in NegCycles(g) : q[1] \in Reach(g, s)

RECURSIVE WalkMin(_, _, _)
\* minimum weight of the walks from s of at most k off-diagonal edges, per
\* end node (textbook Bellman-Ford: every edge relaxed in every round)
WalkMin(g, s, k) ==
    IF k = 0 THEN [j \in {s} |-> 0]
    ELSE LET w == WalkMin(g, s, k - 1)
             A == Offdiag(g)
             Cand(j) == (IF j \in DOMAIN w THEN {w[j]} ELSE {})
                        \cup {w[u] + A[<<u, j>>] :
                                u \in {x \in DOMAIN w : <<x, j>> \in DOMAIN A}}
         IN  [j \in {c \in Nodes : Cand(c) # {}} |-> Min(Cand(j))]

IsSS == call.op = "ss"
IsNEC == call.op = "nec"
IsBF == call.op = "bf"
NegativeEdges(g) == {e \in DOMAIN g.A : g.A[e] < 0}
NegativeLoops(g) == {e \in NegativeEdges(g) : e[1] = e[2]}
\* no relaxation was run
Untouched == i = 0 /\ checked = 0 /\ d = Empty /\ cur = Empty
Finished == pc = "done"
Returned == pc = "done" /\ res.kind = "return"
Raised == pc = "done" /\ res.kind = "Unbounded"

\* ------------------------------------------------------------- claims
\* C1: without a cutoff and with no negative cycle reachable from the
\* source, single_source_bellman_ford_path_length returns, and the returned
\* vector has an entry for exactly the nodes reachable from the source, each
\* the minimum total weight of a path from the source, the source's being 0.
C1_ShortestLengths ==
    (IsSS /\ Finished /\ call.cutoff = NoCutoff
        /\ ~NegCycleReachable(G, call.source))
    => /\ res.kind = "return"
       /\ DOMAIN res.val = Reach(G, call.source)
       /\ \A v \in DOMAIN res.val : res.val[v] = ShortestPath(G, call.source, v)
       /\ res.val[call.source] = 0

\* a two-edge path that beats the direct edge, past a negative edge
C1_Witness ==
    /\ IsSS /\ Returned /\ call.cutoff = NoCutoff
    /\ ~NegCycleReachable(G, call.source)
    /\ \E v \in DOMAIN res.val :
          /\ <<call.source, v>> \in DOMAIN G.A
          /\ res.val[v] < G.A[<<call.source, v>>]

\* C2: without a cutoff, single_source_bellman_ford_path_length raises
\* Unbounded if and only if a negative cycle (a negative self-loop included)
\* is reachable from the source.
C2_RaisesIffNegativeCycle ==
    (IsSS /\ Finished /\ call.cutoff = NoCutoff)
    => (res.kind = "Unbounded" <=> NegCycleReachable(G, call.source))

\* a cycle away from the source found by the for-else check, beside a
\* graph whose only negative cycle the source cannot reach
C2_Witness ==
    /\ IsSS /\ Raised /\ call.cutoff = NoCutoff
    /\ checked = 1
    /\ \A q \in NegCycles(G) : \A a \in DOMAIN q : q[a] # call.source

C2_WitnessUnreachable ==
    /\ IsSS /\ Returned /\ call.cutoff = NoCutoff
    /\ \E j \in DOMAIN Diag(G) : Diag(G)[j] < 0

\* C3: negative_edge_cycle returns true if and only if the graph contains a
\* negative cycle (a negative self-loop included); it answers true without
\* relaxing when a self-loop is negative, and false without relaxing when
\* no edge is negative.
C3_NegativeEdgeCycle ==
    (IsNEC /\ Finished)
    => /\ res.kind = "return"
       /\ res.val <=> (NegCycles(G) # {})
       /\ NegativeLoops(G) # {} => (res.val /\ Untouched)
       /\ NegativeEdges(G) = {} => (~res.val /\ Untouched)

\* a cycle of two or more edges found by the relaxation after the loop
C3_Witness ==
    /\ IsNEC /\ Returned /\ res.val
    /\ checked = 1 /\ i = N - 1

\* C8: on an undirected graph with a negative edge, negative_edge_cycle
\* answers true and the single-source form raises Unbounded for every source
\* that can reach an endpoint of a negative edge.
C8_UndirectedNegativeEdge ==
    (Finished /\ ~G.directed /\ NegativeEdges(G) # {})
    => /\ IsNEC => (res.kind = "return" /\ res.val)
       /\ (IsSS /\ call.cutoff = NoCutoff
             /\ \E e \in NegativeEdges(G) : e[1] \in Reach(G, call.source))
          => res.kind = "Unbounded"

\* the relaxation loop and its final check find the edge two hops away
C8_Witness ==
    /\ IsSS /\ Raised /\ ~G.directed /\ ~G.iso
    /\ checked = 1
    /\ \A e \in NegativeEdges(G) : e[1] # call.source /\ e[2] # call.source

\* completed rounds of the loop: the round that broke out of it counts
Rounds == IF pc = "diag" /\ checked = 0 THEN i + 1 ELSE i

C10_RoundInv ==
    (IsSS /\ call.cutoff = NoCutoff /\ pc \in {"loop", "diag"})
    => d = WalkMin(G, call.source, Rounds)

C10_RoundStep ==
    (IsSS /\ call.cutoff = NoCutoff /\ pc = "loop")
    => /\ DOMAIN d \subseteq DOMAIN d'
       /\ \A j \in DOMAIN d : d'[j] <= d[j]

\* C10: after k completed rounds of the single-source loop without cutoff, d
\* has an entry for exactly the nodes a walk of at most k off-diagonal edges
\* reaches from the source, each the minimum weight of such walks; a round
\* never removes an entry and never increases one.
C10_RelaxationRounds == [](C10_RoundInv) /\ [][C10_RoundStep]_vars

\* an entry that a later round lowered
C10_Witness ==
    /\ IsSS /\ call.cutoff = NoCutoff /\ pc = "loop" /\ i = N - 1
    /\ \E j \in DOMAIN WalkMin(G, call.source, 1) :
          d[j] < WalkMin(G, call.source, 1)[j]

\* steps a call still has ahead of it, at most
Rank ==
    IF pc = "done" THEN 0
    ELSE IF pc = "diag" THEN 1
    ELSE IF pc = "loop" THEN 2 + (N - 1 - i)
    ELSE 3 + N

FrontierNvals == IF IsBF THEN Nvals(cur) ELSE Cardinality(DOMAIN cur)

\* the guard of some action holds (every action's body is total)
CanStep ==
    \/ pc = "start"
    \/ pc = "loop" /\ (i < N - 1 \/ i = N - 1)
    \/ pc = "diag" /\ (IsSS \/ IsBF)

C9_LoopInv ==
    /\ i <= N - 1
    /\ checked <= 1
    /\ checked = 1 => i = N - 1
    /\ pc = "loop" => FrontierNvals > 0
    /\ (pc \in {"diag", "done"} /\ i = N - 1) => checked = 1
    /\ ~Finished => CanStep
    /\ Finished => res.kind # "none"

\* C9: every call terminates: the loop runs at most n-1 rounds, is left at
\* the first round whose filtered frontier is empty without a check round,
\* the check round runs once and only after n-1 rounds that each ended with
\* a non-empty frontier, and a final result follows.
C9_Terminates == [](C9_LoopInv) /\ [][Rank' < Rank]_vars

\* the multi-source form raising from the check round after n-1 rounds
C9_Witness ==
    /\ IsBF /\ Raised /\ checked = 1 /\ i = N - 1

NonNegative(g) == NegativeEdges(g) = {}
\* the nodes within the cutoff, by their shortest path lengths
Within(g, s, c) == {v \in Reach(g, s) : ShortestPath(g, s, v) <= c}

C4_Conclusion ==
    /\ res.kind = "return"
    /\ DOMAIN res.val = Within(G, call.source, call.cutoff[1])
    /\ \A v \in DOMAIN res.val : res.val[v] = ShortestPath(G, call.source, v)

\* C4 as stated, on the general relaxation path with a cutoff c >= 0: for
\* every graph with no negative cycle reachable from the source, the result
\* has an entry for exactly the nodes whose shortest path length is <= c,
\* each that length.
C4_AsStated ==
    (IsSS /\ Finished /\ call.cutoff # NoCutoff /\ call.cutoff[1] >= 0
        /\ ~IsIso(G) /\ ~NegCycleReachable(G, call.source))
    => C4_Conclusion

\* The part of C4 that holds: for every graph with no negative edge weight,
\* every cutoff c >= 0 and, on the iso-valued fast path, a non-zero edge
\* value, the result has an entry for exactly the nodes whose shortest path
\* length is <= c, each that length.
C4_CutoffLengths ==
    (IsSS /\ Finished /\ call.cutoff # NoCutoff
        /\ NonNegative(G) /\ call.cutoff[1] >= 0
        /\ ~(IsIso(G) /\ IsoValue(G) = 0))
    => C4_Conclusion

\* the cutoff leaves out a reachable node: on the fast path with edge value
\* 2 (floor division), and on the relaxation path
C4_Witness ==
    /\ IsSS /\ Returned /\ call.cutoff # NoCutoff /\ call.cutoff[1] >= 0
    /\ NonNegative(G)
    /\ ~IsIso(G)
    /\ DOMAIN res.val # Reach(G, call.source)
    /\ Cardinality(DOMAIN res.val) >= 2

\* the result of the same call with cutoff c1
WithCutoff(c1) == SSRun(G, [call EXCEPT !.cutoff = <<c1>>], Fresh)

C5_Conclusion ==
    \A c1 \in Cutoffs :
        (c1 < call.cutoff[1] /\ WithCutoff(c1).kind = "return")
        => /\ DOMAIN WithCutoff(c1).val \subseteq DOMAIN res.val
           /\ \A v \in DOMAIN WithCutoff(c1).val :
                 WithCutoff(c1).val[v] = res.val[v]

\* C5 as stated: for cutoffs c1 < c2 under which both calls return, the
\* nodes reported under c1 are among those under c2, with equal distances.
C5_AsStated ==
    (IsSS /\ Returned /\ call.cutoff # NoCutoff) => C5_Conclusion

\* The part of C5 that holds: the same, for graphs with no negative edge
\* weight.
C5_CutoffMonotone ==
    (IsSS /\ Returned /\ call.cutoff # NoCutoff /\ NonNegative(G))
    => C5_Conclusion

\* the larger cutoff reports a node the smaller one left out
C5_Witness ==
    /\ IsSS /\ Returned /\ call.cutoff # NoCutoff /\ NonNegative(G)
    /\ ~IsIso(G)
    /\ \E c1 \in Cutoffs :
          /\ c1 < call.cutoff[1] /\ c1 >= 0
          /\ WithCutoff(c1).kind = "return"
          /\ Cardinality(DOMAIN WithCutoff(c1).val) >= 2
          /\ DOMAIN WithCutoff(c1).val # DOMAIN res.val

\* the single-source call for source s, without cutoff, run to its end
SingleSource(s) == SSRun(G, SSCall(s, NoCutoff, "raise"), Fresh)

\* C6: bellman_ford_path_lengths raises Unbounded if and only if the
\* single-source form without cutoff raises for one of the sources;
\* otherwise, with expand_output=False, row r of the returned matrix is the
\* single-source result of the r-th source.
C6_RowsAreSingleSource ==
    (IsBF /\ Finished)
    => LET ids == SourceIds(call)
       IN  /\ res.kind \in {"return", "Unbounded"}
           /\ res.kind = "Unbounded"
                 <=> \E r \in DOMAIN ids : SingleSource(ids[r]).kind = "Unbounded"
           /\ (res.kind = "return" /\ ~call.expand)
                 => /\ DOMAIN res.val = DOMAIN ids
                    /\ \A r \in DOMAIN ids : res.val[r] = SingleSource(ids[r]).val

\* two sources that the loop relaxes for different numbers of rounds
C6_Witness ==
    /\ IsBF /\ Returned /\ ~call.expand /\ ~call.all /\ ~IsIso(G)
    /\ NegativeEdges(G) # {}
    /\ \E r, q \in DOMAIN res.val :
          Cardinality(DOMAIN res.val[r]) = 1 /\ Cardinality(DOMAIN res.val[q]) = N

\* C7: with a list of source nodes and expand_output=True the returned
\* matrix has n rows; the row at each listed node's id holds that source's
\* distances and every other row is empty, for every list of sources,
\* a list naming all n nodes out of id order included.
C7_ExpandAligned ==
    (IsBF /\ Returned /\ call.expand /\ ~call.all)
    => LET ids == SourceIds(call)
       IN  /\ DOMAIN res.val = Nodes
           /\ \A row \in Nodes :
                 IF \E r \in DOMAIN ids : ids[r] = row
                 THEN res.val[row] = SingleSource(row).val
                 ELSE res.val[row] = Empty

====
